---- MODULE Spec2Model ----
(***************************************************************************)
(* Pawlygon Utils: the shapekey utilities (src/utils.py) and the commands  *)
(* that call them (src/operators.py), over the host's ordered, name-unique *)
(* shapekey collection.                                                    *)
(*                                                                         *)
(* A name is a sequence of atoms ("A" then ".old" is the name A.old), so   *)
(* that string concatenation is \o and endswith('.old') is a test of the   *)
(* last atom.  List positions are 0-based as in the code; the TLA+         *)
(* sequence element of position i is keys[i + 1].  An object with no       *)
(* shapekey collection (obj.data.shape_keys is None) has keys = << >>.     *)
(***************************************************************************)
EXTENDS Integers, Sequences, FiniteSets, TLC

VARIABLES obj, scene, pre, last

vars == <<obj, scene, pre, last>>

(* ----------------------------- bounds ---------------------------------- *)
\* longest shapekey list an initial object has
MaxInitKeys == 4
\* no operation grows the list beyond this many entries
MaxKeys == 6
\* longest expected list given to get_missing_shapekeys directly
MaxExpected == 2
\* number of direct utility calls in one behaviour
MaxCalls == 2
\* number of commands in one behaviour
MaxCmds == 3

(* ----------------------------- names ----------------------------------- *)
OLD == ".old"
Basis == <<"Basis">>
NameAold == <<"A", OLD>>
NameB == <<"B">>
NameCold == <<"C", OLD>>
NameW == <<"W">>
NamePool == {Basis, NameAold, NameB, NameCold}
GroupPool == {"L", "R"}

\* str.endswith('.old')
EndsWithOld(name) == Len(name) > 0 /\ name[Len(name)] = OLD

\* the numeric suffixes the host appends to make a name unique
NumSuffix == <<".001", ".002", ".003", ".004", ".005", ".006", ".007", ".008", ".009">>

NamesOf(keys) == {keys[i].name : i \in 1..Len(keys)}

\* the host's unique-name rule: a taken name gets the first free .NNN suffix
UniqueName(name, taken) ==
    IF name \notin taken THEN name
    ELSE LET free == {k \in 1..Len(NumSuffix) : (name \o <<NumSuffix[k]>>) \notin taken}
             k0 == CHOOSE k \in free : \A j \in free : k <= j
         IN name \o <<NumSuffix[k0]>>

\* key_blocks.keys().index(name): 0-based position of the entry named name
IndexOf(keys, name) == (CHOOSE i \in 1..Len(keys) : keys[i].name = name) - 1

(* ------------------------- host operations ----------------------------- *)
NewKey(name) == [name |-> name, value |-> 0, vertex_group |-> ""]

RemoveAt(s, i) == SubSeq(s, 1, i - 1) \o SubSeq(s, i + 1, Len(s))
InsertAt(s, i, e) == SubSeq(s, 1, i - 1) \o <<e>> \o SubSeq(s, i, Len(s))

\* bpy.ops.object.shape_key_move: the active entry goes one step up (-1) or
\* down (+1), wrapping round the ends; the active index follows it
shape_key_move(o, dir) ==
    LET n == Len(o.keys)
        new == (n + o.active + dir) % n
    IN [o EXCEPT !.keys = InsertAt(RemoveAt(o.keys, o.active + 1), new + 1,
                                   o.keys[o.active + 1]),
                 !.active = new]

\* bpy.ops.object.shape_key_clear: every blend weight back to 0
shape_key_clear(o) ==
    [o EXCEPT !.keys = [i \in 1..Len(o.keys) |-> [o.keys[i] EXCEPT !.value = 0]]]

\* bpy.ops.object.shape_key_remove: the active entry is removed; the active
\* index steps back by one unless it was 0.  The host drops a collection
\* whose last entry is removed: keys = << >> is again "no collection".
shape_key_remove(o) ==
    [o EXCEPT !.keys = RemoveAt(o.keys, o.active + 1),
              !.active = IF o.active > 0 THEN o.active - 1 ELSE 0]

\* Object.shape_key_add(name=..., from_mix=False): a new entry at the end
ObjShapeKeyAdd(o, name) ==
    [o EXCEPT !.keys = Append(o.keys, NewKey(UniqueName(name, NamesOf(o.keys))))]

\* bpy.ops.object.shape_key_add(from_mix=True) followed by the rename of the
\* new, now active, entry
OpsShapeKeyAddNamed(o, name) ==
    [o EXCEPT !.keys = Append(o.keys, NewKey(UniqueName(name, NamesOf(o.keys)))),
              !.active = Len(o.keys)]

\* obj.active_shape_key: None when there is no collection or no active entry
HasActiveKey(o) == o.active >= 0 /\ o.active < Len(o.keys)

(* ----------------------------- results --------------------------------- *)
RetNone == [kind |-> "None", n |-> 0, names |-> << >>]
RetInt(n) == [kind |-> "int", n |-> n, names |-> << >>]
RetNames(kind, names) == [kind |-> kind, n |-> Len(names), names |-> names]
\* the AttributeError of an attribute read on None: obj.data.shape_keys on an
\* object that is no mesh (obj.data is None), target.data on no target
RetRaise == [kind |-> "AttributeError", n |-> 0, names |-> << >>]

(* ------------------------- src/utils.py -------------------------------- *)
\* a utility's outcome: the object afterwards, the returned value, and the
\* numbers of single-step moves each of its move loops performed
Outcome(o, ret, moves) == [o |-> o, ret |-> ret, moves |-> moves]

RECURSIVE MoveSteps(_, _, _)
\* for _ in range(k): bpy.ops.object.shape_key_move(type=...)
MoveSteps(o, dir, k) ==
    IF k <= 0 THEN o ELSE MoveSteps(shape_key_move(o, dir), dir, k - 1)

\* one iteration of the loop over the two groups (utils.py 43-60)
SplitOneGroup(o, original_name, group_name, move_steps) ==
    LET o1 == shape_key_clear(o)
        at == IndexOf(o1.keys, original_name)
        o2 == [o1 EXCEPT !.active = at,
                         !.keys[at + 1].vertex_group = group_name,
                         !.keys[at + 1].value = 1]
        o3 == OpsShapeKeyAddNamed(o2, original_name \o <<group_name>>)
    IN MoveSteps(o3, -1, move_steps)

\* the restore without the reset of the original entry's mask
SplitRestoreKeepsMask(o, original_name, original_index) ==
    LET o1 == shape_key_clear(o)
        current_index == IndexOf(o1.keys, original_name)
        o2 == [o1 EXCEPT !.active = current_index]
        steps == IF current_index < original_index
                 THEN original_index - current_index
                 ELSE current_index - original_index
        o3 == IF current_index < original_index
              THEN MoveSteps(o2, 1, steps)
              ELSE MoveSteps(o2, -1, steps)
    IN [o |-> [o3 EXCEPT !.active = original_index], steps |-> steps]

\* the reset of the original entry and the restore of its position (62-79)
SplitRestore(o, original_name, original_index) ==
    LET o1 == shape_key_clear(o)
        current_index == IndexOf(o1.keys, original_name)
        o2 == [o1 EXCEPT !.active = current_index,
                         !.keys[current_index + 1].vertex_group = ""]
        steps == IF current_index < original_index
                 THEN original_index - current_index
                 ELSE current_index - original_index
        o3 == IF current_index < original_index
              THEN MoveSteps(o2, 1, steps)
              ELSE MoveSteps(o2, -1, steps)
    IN [o |-> [o3 EXCEPT !.active = original_index], steps |-> steps]

\* the step count taken without the - 1
MoveStepsForOffByOne(key_count, original_index) == key_count - original_index

\* move_steps = key_count - original_index - 1 (utils.py 37-38)
MoveStepsFor(key_count, original_index) == key_count - original_index - 1

\* group_a and group_b are both found by obj.vertex_groups.get (utils.py 27-32)
GroupsExist(o, group_a_name, group_b_name) ==
    group_a_name \in o.vgroups /\ group_b_name \in o.vgroups

split_shapekey_by_groups(o, present, group_a_name, group_b_name) ==
    IF ~present THEN Outcome(o, RetNone, << >>)
    ELSE IF o.type # "MESH" THEN Outcome(o, RetRaise, << >>)
    ELSE IF Len(o.keys) = 0 THEN Outcome(o, RetNone, << >>)
    ELSE IF ~HasActiveKey(o) THEN Outcome(o, RetNone, << >>)
    ELSE IF ~GroupsExist(o, group_a_name, group_b_name) THEN Outcome(o, RetNone, << >>)
    ELSE LET original_name == o.keys[o.active + 1].name
             original_index == o.active
             key_count == Len(o.keys)
             move_steps == MoveStepsFor(key_count, original_index)
             oa == SplitOneGroup(o, original_name, group_a_name, move_steps)
             ob == SplitOneGroup(oa, original_name, group_b_name, move_steps)
             r == SplitRestore(ob, original_name, original_index)
         IN Outcome(r.o,
                    RetNames("tuple", <<original_name \o <<group_a_name>>,
                                        original_name \o <<group_b_name>>>>),
                    <<move_steps, move_steps, r.steps>>)

RECURSIVE FilterMissing(_, _)
\* [name for name in expected_names if name not in existing]
FilterMissing(expected_names, existing) ==
    IF expected_names = << >> THEN << >>
    ELSE (IF Head(expected_names) \in existing THEN << >> ELSE <<Head(expected_names)>>)
         \o FilterMissing(Tail(expected_names), existing)

get_missing_shapekeys(o, present, expected_names) ==
    IF ~present THEN Outcome(o, RetNames("list", expected_names), << >>)
    ELSE IF o.type # "MESH" THEN Outcome(o, RetRaise, << >>)
    ELSE IF Len(o.keys) = 0 THEN Outcome(o, RetNames("list", expected_names), << >>)
    ELSE Outcome(o, RetNames("list", FilterMissing(expected_names, NamesOf(o.keys))), << >>)

RECURSIVE OldIndices(_, _)
\* [i for i, kb in enumerate(key_blocks) if kb.name.endswith('.old')],
\* from position i on
OldIndices(keys, i) ==
    IF i >= Len(keys) THEN << >>
    ELSE (IF EndsWithOld(keys[i + 1].name) THEN <<i>> ELSE << >>) \o OldIndices(keys, i + 1)

RECURSIVE MoveToTarget(_, _)
\* while obj.active_shape_key_index < target_index: shape_key_move(type='DOWN')
MoveToTarget(o, target_index) ==
    IF o.active < target_index THEN MoveToTarget(shape_key_move(o, 1), target_index)
    ELSE o

RECURSIVE MoveOldLoopNoSkip(_, _, _)
\* the loop without its skip of index 0
MoveOldLoopNoSkip(o, old_indices, moved) ==
    IF old_indices = << >> THEN Outcome(o, RetInt(moved), << >>)
    ELSE LET idx == old_indices[Len(old_indices)]
             rest == SubSeq(old_indices, 1, Len(old_indices) - 1)
         IN MoveOldLoopNoSkip(MoveToTarget([o EXCEPT !.active = idx], Len(o.keys) - 1),
                              rest, moved + 1)

RECURSIVE MoveOldLoop(_, _, _)
\* for idx in reversed(old_indices): ... (utils.py 126-133)
MoveOldLoop(o, old_indices, moved) ==
    IF old_indices = << >> THEN Outcome(o, RetInt(moved), << >>)
    ELSE LET idx == old_indices[Len(old_indices)]
             rest == SubSeq(old_indices, 1, Len(old_indices) - 1)
         IN IF idx = 0 THEN MoveOldLoop(o, rest, moved)
            ELSE MoveOldLoop(MoveToTarget([o EXCEPT !.active = idx], Len(o.keys) - 1),
                             rest, moved + 1)

move_old_shapekeys_to_bottom(o, present) ==
    IF ~present THEN Outcome(o, RetNone, << >>)
    ELSE IF o.type # "MESH" THEN Outcome(o, RetRaise, << >>)
    ELSE IF Len(o.keys) = 0 THEN Outcome(o, RetNone, << >>)
    ELSE MoveOldLoop(o, OldIndices(o.keys, 0), 0)

RECURSIVE OldNames(_)
\* [kb.name for kb in key_blocks if kb.name.endswith('.old')]
OldNames(keys) ==
    IF keys = << >> THEN << >>
    ELSE (IF EndsWithOld(Head(keys).name) THEN <<Head(keys).name>> ELSE << >>)
         \o OldNames(Tail(keys))

RECURSIVE DeleteOldLoop(_, _, _)
\* for name in reversed(old_names): ... (utils.py 160-164)
DeleteOldLoop(o, old_names, deleted) ==
    IF old_names = << >> THEN Outcome(o, RetInt(deleted), << >>)
    ELSE LET name == old_names[Len(old_names)]
             rest == SubSeq(old_names, 1, Len(old_names) - 1)
         IN IF name \in NamesOf(o.keys)
            THEN DeleteOldLoop(shape_key_remove([o EXCEPT !.active = IndexOf(o.keys, name)]),
                               rest, deleted + 1)
            ELSE DeleteOldLoop(o, rest, deleted)

delete_old_shapekeys(o, present) ==
    IF ~present THEN Outcome(o, RetNone, << >>)
    ELSE IF o.type # "MESH" THEN Outcome(o, RetRaise, << >>)
    ELSE IF Len(o.keys) = 0 THEN Outcome(o, RetNone, << >>)
    ELSE DeleteOldLoop(o, OldNames(o.keys), 0)
(* ----------------------- src/operators.py ------------------------------ *)
\* constants.SHAPEKEY_LISTS: the named expected lists
SHAPEKEY_LISTS ==
    [Face |-> <<NameB, NameB \o <<"L">>, NameW>>, Base |-> <<Basis, NameW>>]

ListNames == DOMAIN SHAPEKEY_LISTS

\* self.report({level}, text): the text's fixed part and the values put in it
Report(level, text, n, names) == [level |-> level, text |-> text, n |-> n, names |-> names]

\* a command's outcome: object and scene afterwards, the utility's returned
\* value and move counts, the returned status set and the reports emitted
CmdOutcome(o, sc, ret, moves, status, reports) ==
    [o |-> o, scene |-> sc, ret |-> ret, moves |-> moves, status |-> status,
     reports |-> reports]

\* an exception leaves the command without a status or a report
CmdRaised(o, sc, ret) == CmdOutcome(o, sc, ret, << >>, "EXCEPTION", << >>)

\* the poll of move, of delete and (with the active entry) of split
PollCleanup(o, sc) ==
    /\ sc.active_object
    /\ o.type = "MESH"
    /\ Len(o.keys) > 0
    /\ o.mode \in {"OBJECT", "SCULPT"}

PollSplit(o, sc) ==
    /\ sc.active_object
    /\ o.type = "MESH"
    /\ Len(o.keys) > 0
    /\ HasActiveKey(o)
    /\ o.mode \in {"OBJECT", "SCULPT"}

PollCheckMissing(o, sc) == sc.target_object

PollCreateMissing(o, sc) == sc.target_object /\ sc.missing_count > 0

\* PU_OT_move_old_shapekeys.execute
ExecMoveOld(o, sc) ==
    LET r == move_old_shapekeys_to_bottom(o, sc.active_object)
    IN IF r.ret.kind = "AttributeError" THEN CmdRaised(o, sc, r.ret)
       ELSE IF r.ret.kind = "None" THEN CmdRaised(o, sc, [r.ret EXCEPT !.kind = "TypeError"])
       ELSE CmdOutcome(r.o, sc, r.ret, r.moves, "FINISHED",
                       IF r.ret.n > 0
                       THEN <<Report("INFO", "Moved shapekey(s) to bottom", r.ret.n, << >>)>>
                       ELSE <<Report("INFO", "No .old shapekeys found", 0, << >>)>>)

\* PU_OT_delete_old_shapekeys.execute
ExecDeleteOld(o, sc) ==
    LET r == delete_old_shapekeys(o, sc.active_object)
    IN IF r.ret.kind = "AttributeError" THEN CmdRaised(o, sc, r.ret)
       ELSE IF r.ret.kind = "None" THEN CmdRaised(o, sc, [r.ret EXCEPT !.kind = "TypeError"])
       ELSE CmdOutcome(r.o, sc, r.ret, r.moves, "FINISHED",
                       IF r.ret.n > 0
                       THEN <<Report("INFO", "Deleted shapekey(s)", r.ret.n, << >>)>>
                       ELSE <<Report("INFO", "No .old shapekeys found", 0, << >>)>>)

\* PU_OT_split_shapekey.execute
ExecSplit(o, sc, group_a, group_b) ==
    LET r == split_shapekey_by_groups(o, sc.active_object, group_a, group_b)
    IN IF r.ret.kind = "AttributeError" THEN CmdRaised(o, sc, r.ret)
       ELSE IF r.ret.kind = "tuple"
       THEN CmdOutcome(r.o, sc, r.ret, r.moves, "FINISHED",
                       <<Report("INFO", "Created: and", 2, r.ret.names)>>)
       ELSE CmdOutcome(r.o, sc, r.ret, r.moves, "CANCELLED",
                       <<Report("WARNING", "Could not split. Check vertex groups exist.",
                                0, << >>)>>)

\* PU_OT_check_missing.execute
ExecCheckMissing(o, sc) ==
    LET expected_keys == SHAPEKEY_LISTS[sc.list_name]
        r == get_missing_shapekeys(o, sc.target_object, expected_keys)
        missing == r.ret.names
    IN IF r.ret.kind = "AttributeError" THEN CmdRaised(o, sc, r.ret)
       ELSE CmdOutcome(o, [sc EXCEPT !.missing_count = Len(missing),
                                     !.missing_list = missing],
                       r.ret, << >>, "FINISHED",
                       IF missing # << >>
                       THEN <<Report("INFO", "Found missing shapekeys", Len(missing), << >>)>>
                       ELSE <<Report("INFO", "All shapekeys present!", 0, << >>)>>)

RECURSIVE CreateLoopNoCheck(_, _, _)
\* the loop without its test that the name is still missing
CreateLoopNoCheck(o, missing_list, created) ==
    IF missing_list = << >> THEN [o |-> o, created |-> created]
    ELSE CreateLoopNoCheck(ObjShapeKeyAdd(o, Head(missing_list)), Tail(missing_list),
                           created + 1)

RECURSIVE CreateLoop(_, _, _)
\* for item in missing_list: ... (operators.py 170-174)
CreateLoop(o, missing_list, created) ==
    IF missing_list = << >> THEN [o |-> o, created |-> created]
    ELSE IF Head(missing_list) \notin NamesOf(o.keys)
         THEN CreateLoop(ObjShapeKeyAdd(o, Head(missing_list)), Tail(missing_list),
                         created + 1)
         ELSE CreateLoop(o, Tail(missing_list), created)

\* the count reset without the clear of the list
ClearMissingCountOnly(sc) == [sc EXCEPT !.missing_count = 0]

\* pawlygon_missing_count = 0; pawlygon_missing_list.clear() (operators.py 176-178)
ClearMissing(sc) == [sc EXCEPT !.missing_count = 0, !.missing_list = << >>]

\* PU_OT_create_missing.execute: target.data.shape_keys (line 165) raises
\* AttributeError when target is None and when target.data is None
ExecCreateMissing(o, sc) ==
    IF ~sc.target_object THEN CmdRaised(o, sc, RetRaise)
    ELSE IF o.type # "MESH" THEN CmdRaised(o, sc, RetRaise)
    ELSE LET o1 == IF Len(o.keys) = 0 THEN ObjShapeKeyAdd(o, Basis) ELSE o
             r == CreateLoop(o1, sc.missing_list, 0)
         IN CmdOutcome(r.o, ClearMissing(sc),
                       RetInt(r.created), << >>, "FINISHED",
                       <<Report("INFO", "Created shapekey(s)", r.created, << >>)>>)
(* --------------------------- state machine ----------------------------- *)
\* the lists an object can start with: distinct names of the pool, the base
\* entry at weight 0 and the others at weight 1, no masks
InjectiveSeqs(S, n) ==
    {q \in [1..n -> S] : \A i, j \in 1..n : i # j => q[i] # q[j]}

InitKeys(q) ==
    [i \in 1..Len(q) |-> [name |-> q[i], value |-> IF i = 1 THEN 0 ELSE 1,
                          vertex_group |-> ""]]

InitKeyLists ==
    UNION {{InitKeys(q) : q \in InjectiveSeqs(NamePool, n)} : n \in 0..MaxInitKeys}

\* mesh objects: any list, any active index (-1: no active entry), any groups
MeshObjects(modes) ==
    UNION {{[type |-> "MESH", mode |-> m, keys |-> k, active |-> a, vgroups |-> g] :
               m \in modes, a \in -1..(Len(k) - 1), g \in {{}, {"L"}, {"L", "R"}}} :
           k \in InitKeyLists}

\* an object that is no mesh has no data, hence no shapekeys and no groups
EmptyObject ==
    [type |-> "EMPTY", mode |-> "OBJECT", keys |-> << >>, active |-> -1, vgroups |-> {}]

NoOp == [op |-> "init", prev |-> "init", given |-> FALSE, a |-> "", b |-> "",
         expected |-> << >>,
         ret |-> RetNone, moves |-> << >>, status |-> "", reports |-> << >>, n |-> 0]

InitScene(act, tgt, ln) ==
    [active_object |-> act, target_object |-> tgt, list_name |-> ln,
     missing_count |-> 0, missing_list |-> << >>]

\* what a direct call of a utility leaves behind
Called(op, given, a, b, expected, r) ==
    /\ pre' = [obj |-> obj, scene |-> scene]
    /\ obj' = r.o
    /\ UNCHANGED scene
    /\ last' = [op |-> op, prev |-> last.op, given |-> given, a |-> a, b |-> b,
                expected |-> expected,
                ret |-> r.ret, moves |-> r.moves, status |-> "", reports |-> << >>,
                n |-> last.n + 1]

\* what a command leaves behind
Commanded(op, given, a, b, r) ==
    /\ pre' = [obj |-> obj, scene |-> scene]
    /\ obj' = r.o
    /\ scene' = r.scene
    /\ last' = [op |-> op, prev |-> last.op, given |-> given, a |-> a, b |-> b,
                expected |-> << >>,
                ret |-> r.ret, moves |-> r.moves, status |-> r.status,
                reports |-> r.reports, n |-> last.n + 1]

\* a command whose poll fails is greyed out: invoking it does nothing
Disabled(o, sc) == CmdOutcome(o, sc, RetNone, << >>, "DISABLED", << >>)
(* direct calls of the utilities.  Each takes whatever object it is handed: *)
(* None, a mesh, or an object without mesh data; none of them tests the     *)
(* object's type (utils.py 20, 95, 116, 150).                               *)
ExpectedPool == {NameB, NameW}

ExpectedLists == UNION {[1..n -> ExpectedPool] : n \in 0..MaxExpected}

UtilInit ==
    /\ obj \in MeshObjects({"OBJECT"}) \cup {EmptyObject}
    /\ scene = InitScene(TRUE, FALSE, "Face")
    /\ pre = [obj |-> obj, scene |-> scene]
    /\ last = NoOp

CallMoveOld ==
    /\ last.n < MaxCalls
    /\ \E given \in BOOLEAN :
          Called("move", given, "", "", << >>, move_old_shapekeys_to_bottom(obj, given))

CallDeleteOld ==
    /\ last.n < MaxCalls
    /\ \E given \in BOOLEAN :
          Called("delete", given, "", "", << >>, delete_old_shapekeys(obj, given))

CallSplit ==
    /\ last.n < MaxCalls
    /\ Len(obj.keys) + 2 <= MaxKeys
    /\ \E given \in BOOLEAN, a, b \in GroupPool :
          Called("split", given, a, b, << >>, split_shapekey_by_groups(obj, given, a, b))

CallGetMissing ==
    /\ last.n < MaxCalls
    /\ \E given \in BOOLEAN, expected \in ExpectedLists :
          Called("missing", given, "", "", expected,
                 get_missing_shapekeys(obj, given, expected))

UtilNext == CallMoveOld \/ CallDeleteOld \/ CallSplit \/ CallGetMissing

UtilSpec == UtilInit /\ [][UtilNext]_vars

(* the five commands, on a scene whose active and target object are obj *)
Init ==
    /\ obj \in MeshObjects({"OBJECT", "SCULPT", "EDIT"}) \cup {EmptyObject}
    /\ scene \in {InitScene(act, tgt, ln) :
                     act \in BOOLEAN, tgt \in BOOLEAN, ln \in ListNames}
    /\ pre = [obj |-> obj, scene |-> scene]
    /\ last = NoOp

MoveOldCmd ==
    /\ last.n < MaxCmds
    /\ Commanded("move", scene.active_object, "", "",
                 IF PollCleanup(obj, scene) THEN ExecMoveOld(obj, scene)
                 ELSE Disabled(obj, scene))

DeleteOldCmd ==
    /\ last.n < MaxCmds
    /\ Commanded("delete", scene.active_object, "", "",
                 IF PollCleanup(obj, scene) THEN ExecDeleteOld(obj, scene)
                 ELSE Disabled(obj, scene))

SplitCmd ==
    /\ last.n < MaxCmds
    /\ Len(obj.keys) + 2 <= MaxKeys
    /\ \E a, b \in GroupPool :
          Commanded("split", scene.active_object, a, b,
                    IF PollSplit(obj, scene) THEN ExecSplit(obj, scene, a, b)
                    ELSE Disabled(obj, scene))

CheckMissingCmd ==
    /\ last.n < MaxCmds
    /\ Commanded("check", scene.target_object, "", "",
                 IF PollCheckMissing(obj, scene) THEN ExecCheckMissing(obj, scene)
                 ELSE Disabled(obj, scene))

CreateMissingCmd ==
    /\ last.n < MaxCmds
    /\ Len(obj.keys) + 1 + Len(scene.missing_list) <= MaxKeys
    /\ Commanded("create", scene.target_object, "", "",
                 IF PollCreateMissing(obj, scene) THEN ExecCreateMissing(obj, scene)
                 ELSE Disabled(obj, scene))

Next == MoveOldCmd \/ DeleteOldCmd \/ SplitCmd \/ CheckMissingCmd \/ CreateMissingCmd

Spec == Init /\ [][Next]_vars
(* ------------------------------ claims --------------------------------- *)
NameSeq(keys) == [i \in 1..Len(keys) |-> keys[i].name]

IsOldName(name) == EndsWithOld(name)
IsKeptName(name) == ~EndsWithOld(name)

\* the last operation was op, given the object, which had a collection
Ran(op) == last.op = op /\ last.given /\ Len(pre.obj.keys) > 0

\* C1: after move_old_shapekeys_to_bottom on a list with a base entry, the
\* entry at index 0 is the one that was there, no '.old' entry at index >= 1
\* precedes an entry that is not '.old', the entries that are not '.old'
\* keep their relative order, and the set of entries is unchanged.
C1_MoveOldPartition ==
    Ran("move") =>
        /\ last.ret.kind = "int"
        /\ Len(obj.keys) = Len(pre.obj.keys)
        /\ obj.keys[1] = pre.obj.keys[1]
        /\ \A i, j \in 2..Len(obj.keys) :
              i < j /\ EndsWithOld(obj.keys[i].name) => EndsWithOld(obj.keys[j].name)
        /\ SelectSeq(NameSeq(obj.keys), IsKeptName) = SelectSeq(NameSeq(pre.obj.keys), IsKeptName)
        /\ {obj.keys[i] : i \in 1..Len(obj.keys)}
              = {pre.obj.keys[i] : i \in 1..Len(pre.obj.keys)}

\* a move on a list whose base entry is itself '.old' and that had to reorder
C1_Witness ==
    /\ Ran("move")
    /\ EndsWithOld(pre.obj.keys[1].name)
    /\ obj.keys # pre.obj.keys

\* C2: a second consecutive move_old_shapekeys_to_bottom moves nothing: it
\* returns 0 and leaves the order as the first call left it.
C2_MoveOldIdempotent ==
    Ran("move") =>
        LET again == move_old_shapekeys_to_bottom(obj, TRUE)
        IN again.ret = RetInt(0) /\ again.o.keys = obj.keys

\* C3: the result of move_old_shapekeys_to_bottom is the base entry, then the
\* entries that are not '.old' in their original order, then the '.old'
\* entries of index >= 1 in their original order.
C3_MoveOldStable ==
    Ran("move") =>
        NameSeq(obj.keys)
            = <<pre.obj.keys[1].name>>
              \o SelectSeq(Tail(NameSeq(pre.obj.keys)), IsKeptName)
              \o SelectSeq(Tail(NameSeq(pre.obj.keys)), IsOldName)

\* C4: after delete_old_shapekeys no entry at index >= 1 is '.old', the
\* entries that are not '.old' are all there in the same order, the returned
\* count is the number of entries removed, and a second consecutive call
\* removes nothing and returns 0.
C4_DeleteOld ==
    Ran("delete") =>
        /\ \A i \in 2..Len(obj.keys) : ~EndsWithOld(obj.keys[i].name)
        /\ SelectSeq(NameSeq(obj.keys), IsKeptName) = SelectSeq(NameSeq(pre.obj.keys), IsKeptName)
        /\ last.ret = RetInt(Len(pre.obj.keys) - Len(obj.keys))
        /\ LET again == delete_old_shapekeys(obj, TRUE)
           IN again.ret = RetInt(0) /\ again.o.keys = obj.keys

\* C5: no command removes or displaces the base entry: an object that had a
\* shapekey collection before a command still has the same entry at index 0
\* after it.
C5_BaseProtected ==
    Len(pre.obj.keys) > 0 =>
        Len(obj.keys) > 0 /\ obj.keys[1].name = pre.obj.keys[1].name
\* a split whose preconditions all hold
SplitDone ==
    /\ Ran("split")
    /\ pre.obj.active \in 0..(Len(pre.obj.keys) - 1)
    /\ {last.a, last.b} \subseteq pre.obj.vgroups

OriginalName == pre.obj.keys[pre.obj.active + 1].name
NameA == OriginalName \o <<last.a>>
NameB2 == OriginalName \o <<last.b>>
AddedNames == NamesOf(obj.keys) \ NamesOf(pre.obj.keys)

\* what every successful split does besides naming the new entries
SplitKeepsOriginal ==
    /\ Len(obj.keys) = Len(pre.obj.keys) + 2
    /\ Cardinality(AddedNames) = 2
    /\ last.ret = RetNames("tuple", <<NameA, NameB2>>)
    /\ NamesOf(pre.obj.keys) \subseteq NamesOf(obj.keys)
    /\ obj.keys[pre.obj.active + 1].name = OriginalName
    /\ obj.keys[pre.obj.active + 1].vertex_group = ""
    /\ obj.active = pre.obj.active

\* C6 as stated: a successful split adds exactly two entries, named exactly
\* N+A and N+B whatever names exist already and also when A = B, returns
\* those names, removes nothing, and leaves the original entry unmasked, at
\* its index and active.
C6_SplitNamesExact ==
    SplitDone => SplitKeepsOriginal /\ AddedNames = {NameA, NameB2}

\* name, or name with a numeric suffix when name is taken
NameOrSuffixed(name, taken) ==
    IF name \notin taken THEN {name}
    ELSE {name \o <<NumSuffix[k]>> : k \in 1..Len(NumSuffix)} \ taken

\* C6 amended: a successful split adds exactly two entries; the first is
\* named N+A and the second N+B, except that a name already taken (by an
\* entry of the list, or by the first new entry when A = B) gets a numeric
\* suffix from the host; the call returns N+A and N+B in either case, removes
\* nothing, and leaves the original entry unmasked, at its index and active.
C6_SplitNames ==
    SplitDone =>
        /\ SplitKeepsOriginal
        /\ \E x \in NameOrSuffixed(NameA, NamesOf(pre.obj.keys)) :
           \E y \in NameOrSuffixed(NameB2, NamesOf(pre.obj.keys) \cup {x}) :
              AddedNames = {x, y}

\* a split whose first new name was taken already and was given a suffix
C6_Witness ==
    /\ SplitDone
    /\ NameA \in NamesOf(pre.obj.keys)
    /\ last.a # last.b
    /\ NameA \o <<".001">> \in AddedNames

\* C7: a successful split of the active entry at index i of n entries moves
\* each new entry up n - i - 1 steps from the end, so that the group-A entry
\* is at i + 1, the group-B entry at i + 2, the original at i, the entries
\* that were there keep their order, and the restore loop makes no move.
C7_SplitPositions ==
    SplitDone =>
        LET i == pre.obj.active
            n == Len(pre.obj.keys)
        IN /\ last.moves = <<n - i - 1, n - i - 1, 0>>
           /\ Len(obj.keys) = n + 2
           /\ obj.keys[i + 1].name = OriginalName
           /\ obj.keys[i + 2].name \in NameOrSuffixed(NameA, NamesOf(pre.obj.keys))
           /\ obj.keys[i + 3].name
                 \in NameOrSuffixed(NameB2, NamesOf(pre.obj.keys) \cup {obj.keys[i + 2].name})
           /\ SubSeq(NameSeq(obj.keys), 1, i + 1) \o SubSeq(NameSeq(obj.keys), i + 4, n + 2)
                 = NameSeq(pre.obj.keys)

\* a split of an entry in the middle of the list: the new entries had to move
C7_Witness ==
    /\ SplitDone
    /\ pre.obj.active > 0
    /\ pre.obj.active < Len(pre.obj.keys) - 1
    /\ last.moves[1] > 0

\* some precondition of split fails
SplitRefused ==
    /\ last.op = "split"
    /\ \/ ~last.given
       \/ Len(pre.obj.keys) = 0
       \/ pre.obj.active \notin 0..(Len(pre.obj.keys) - 1)
       \/ last.a \notin pre.obj.vgroups
       \/ last.b \notin pre.obj.vgroups

RECURSIVE IsSubsequence(_, _)
IsSubsequence(s, t) ==
    IF s = << >> THEN TRUE
    ELSE IF t = << >> THEN FALSE
    ELSE IF Head(s) = Head(t) THEN IsSubsequence(Tail(s), Tail(t))
    ELSE IsSubsequence(s, Tail(t))

\* C9: for every object, get_missing_shapekeys returns the expected names
\* that are no names of the object's shapekeys, in the expected list's order
\* (the whole list when there is no collection), and leaves the object as
\* it was.
C9_MissingDiff ==
    last.op = "missing" =>
        LET existing == IF last.given THEN NamesOf(pre.obj.keys) ELSE {}
            got == last.ret.names
        IN /\ last.ret.kind = "list"
           /\ obj = pre.obj
           /\ IsSubsequence(got, last.expected)
           /\ \A i \in 1..Len(got) : got[i] \notin existing
           /\ Len(got) = Cardinality({i \in 1..Len(last.expected) :
                                         last.expected[i] \notin existing})
           /\ (existing = {} => got = last.expected)

RECURSIVE FirstOccurrences(_, _)
\* the names of s not in seen, each once, in order of first occurrence
FirstOccurrences(s, seen) ==
    IF s = << >> THEN << >>
    ELSE IF Head(s) \in seen THEN FirstOccurrences(Tail(s), seen)
    ELSE <<Head(s)>> \o FirstOccurrences(Tail(s), seen \cup {Head(s)})

CreateRan == last.op = "create" /\ last.status = "FINISHED"

\* C10: create-missing first creates the base entry Basis when the target
\* has no collection, then appends, in list order, an entry of weight 0 for
\* each cached name that no entry has at that moment; the entries that were
\* there are unchanged, the reported count is the number appended (the base
\* entry not counted), and every cached name is present afterwards.
C10_CreateMissing ==
    CreateRan =>
        LET before == IF Len(pre.obj.keys) = 0 THEN <<NewKey(Basis)>> ELSE pre.obj.keys
            cached == pre.scene.missing_list
            wanted == FirstOccurrences(cached, NamesOf(before))
        IN /\ Len(obj.keys) = Len(before) + Len(wanted)
           /\ SubSeq(obj.keys, 1, Len(before)) = before
           /\ \A k \in 1..Len(wanted) : obj.keys[Len(before) + k] = NewKey(wanted[k])
           /\ last.ret = RetInt(Len(wanted))
           /\ last.reports = <<Report("INFO", "Created shapekey(s)", Len(wanted), << >>)>>
           /\ \A k \in 1..Len(cached) : cached[k] \in NamesOf(obj.keys)

\* create-missing on a target without a collection whose cached list names
\* the base entry itself: Basis is created first, then skipped in the loop
C10_Witness ==
    /\ CreateRan
    /\ Len(pre.obj.keys) = 0
    /\ pre.scene.missing_list = <<Basis, NameW>>
    /\ NameSeq(obj.keys) = <<Basis, NameW>>
    /\ last.ret.n = 1
\* C11: the stored missing count is always the number of records of the
\* stored missing list; after a finished create-missing both are empty, and
\* a create-missing that directly follows a create-missing is disabled by
\* its poll and creates nothing.
C11_MissingCache ==
    /\ scene.missing_count = Len(scene.missing_list)
    /\ (last.op = "create" /\ last.status = "FINISHED") =>
           scene.missing_count = 0 /\ scene.missing_list = << >>
    /\ (last.op = "create" /\ last.prev = "create") =>
           last.status = "DISABLED" /\ obj = pre.obj /\ scene = pre.scene

\* check, create and create again on a mesh target: the first create added
\* W, the second one is disabled
C11_Witness ==
    /\ last.op = "create"
    /\ last.prev = "create"
    /\ last.status = "DISABLED"
    /\ scene.target_object
    /\ NameW \in NamesOf(obj.keys)
\* C12: no command crashes: every invocation is disabled by its poll, or
\* ends cancelled with one warning, or finishes with one status message.
C12_NoCrash ==
    last.op # "init" =>
        \/ last.status = "DISABLED" /\ last.reports = << >>
        \/ /\ last.status = "CANCELLED"
           /\ Len(last.reports) = 1
           /\ last.reports[1].level = "WARNING"
        \/ last.status = "FINISHED" /\ Len(last.reports) = 1
====
